---- MODULE Spec2Model ----
(***************************************************************************)
(* Model of the trend monitor: TrendMonitor (src/src/monitor.py), the      *)
(* transition policy of TrendAnalyzer (src/src/trend_analyzer.py) and the  *)
(* fail-over data source HybridDataSource (src/src/alternative_data.py)    *)
(* and the request path of BinanceAPI (src/src/binance_api.py).            *)
(*                                                                         *)
(* One caller thread issues start/stop/add/remove commands (main.py        *)
(* interactive_mode is a single-threaded command loop).  Every             *)
(* start_monitoring() that passes its checks launches a loop thread; each  *)
(* loop thread runs rounds, and each round runs one task per               *)
(* (symbol, timeframe) pair on a worker pool.                              *)
(***************************************************************************)
EXTENDS Integers, Sequences, FiniteSets, TLC

VARIABLES
    symbols,          \* TrendMonitor.symbols: list of symbols
    trend_history,    \* TrendMonitor.trend_history: key -> trend (or Absent)
    is_monitoring,    \* TrendMonitor.is_monitoring
    monitor_thread,   \* TrendMonitor.monitor_thread: thread slot or NoThread
    lock,             \* TrendMonitor.lock: FreeLock or the holding task <<t, i>>
    use_alternative,  \* HybridDataSource.use_alternative
    loopPc,           \* position of each loop thread in _monitoring_loop
    idx,              \* list-iterator index of "for symbol in self.symbols"
    max_workers,      \* max_workers of the round's ThreadPoolExecutor
    futures,          \* the round's futures: per loop thread, a sequence of tasks
    completed_count,  \* _perform_monitoring_round local
    error_count,      \* _perform_monitoring_round local
    callerPc,         \* position of the caller thread inside stop/remove
    callerArg,        \* symbol argument of the remove_symbol in progress
    lastOp,           \* outcome of the caller's last command
    elapsed_time,     \* _monitoring_loop local: duration of the last round
    sleep_time,       \* _monitoring_loop local: wait before the next round
    calls,            \* last HybridDataSource call of each direct client
    classified,       \* input and result of a TrendAnalyzer.analyze_trend call
    api_endpoints,    \* BinanceAPI.api_endpoints
    base_url,         \* BinanceAPI.base_url
    last_request_time,\* BinanceAPI.last_request_time
    now,              \* time.time(), in ticks
    reqs              \* the threads calling BinanceAPI._make_request

vars == <<symbols, trend_history, is_monitoring, monitor_thread, lock,
          use_alternative, loopPc, idx, max_workers, futures,
          completed_count, error_count, callerPc, callerArg, lastOp,
          elapsed_time, sleep_time, calls, classified, api_endpoints,
          base_url, last_request_time, now, reqs>>

\* the fields of the BinanceAPI instance, the clock and the requesting threads
binanceVars == <<api_endpoints, base_url, last_request_time, now, reqs>>

----------------------------------------------------------------------------
(* Bounds and universes *)

\* number of loop-thread slots (threads that can be alive at the same time)
MaxThreads == 2

Threads == 1..MaxThreads

NoThread == 0

FreeLock == <<0, 0>>

\* symbols are token sequences so that the key format and prefix test of the
\* source can be modelled literally
BTC == <<"BTCUSDT">>

DOGE == <<"DOGEUSDT">>

\* a symbol whose text continues another symbol's text with an underscore
PERP == <<"BTCUSDT", "_", "PERP">>

SymbolUniverse == {BTC, DOGE, PERP}

\* AlternativeDataSource.symbol_mapping: BTCUSDT is mapped, the others are not
symbol_mapping == {BTC}

timeframes == <<"1h">>

\* TrendType
UNKNOWN == "UNKNOWN"

SIDEWAYS == "SIDEWAYS"

UPTREND == "UPTREND"

DOWNTREND == "DOWNTREND"

TrendType == {SIDEWAYS, UPTREND, DOWNTREND, UNKNOWN}

Absent == "absent"

NoValue == "unset"

----------------------------------------------------------------------------
(* Pure functions *)

\* key = f"{symbol}_{timeframe}"
Key(symbol, timeframe) == symbol \o <<"_">> \o <<timeframe>>

AllKeys == {Key(s, timeframes[j]) : s \in SymbolUniverse, j \in 1..Len(timeframes)}

\* dict.get(key, default)
DictGet(d, key, default) == IF d[key] = Absent THEN default ELSE d[key]

\* TrendAnalyzer.detect_trend_change: the list alert_changes
alert_changes ==
    << <<SIDEWAYS, UPTREND>>, <<SIDEWAYS, DOWNTREND>>,
       <<UPTREND, SIDEWAYS>>, <<DOWNTREND, SIDEWAYS>>,
       <<UPTREND, DOWNTREND>>, <<DOWNTREND, UPTREND>> >>

\* variant: every difference between the two trends counts as a change
detect_any_difference(current_trend, previous_trend) ==
    previous_trend # current_trend

\* TrendAnalyzer.detect_trend_change(current_trend, previous_trend)
detect_trend_change(current_trend, previous_trend) ==
    IF previous_trend = UNKNOWN
    THEN FALSE
    ELSE \E n \in 1..Len(alert_changes) :
            alert_changes[n] = <<previous_trend, current_trend>>

\* min(10, len(self.symbols) * len(self.timeframes))
PoolCap == 10

Min(a, b) == IF a < b THEN a ELSE b

PoolSize(syms) == Min(PoolCap, Len(syms) * Len(timeframes))

\* AlternativeDataSource.get_klines_alternative: None ("none") for a symbol
\* without mapping, a failed request (alt false) or an empty answer
get_klines_alternative(symbol, alt, rows) ==
    IF symbol \in symbol_mapping /\ alt THEN rows ELSE "none"

\* AlternativeDataSource.get_current_price_coingecko: None ("none") for a
\* symbol without mapping or a failed request (alt false)
get_current_price_coingecko(symbol, alt) ==
    IF symbol \in symbol_mapping /\ alt THEN "price" ELSE "none"

\* variant: the primary is tried whatever the mode
UsePrimaryAlways(flag) == TRUE

\* "if not self.use_alternative"
UsePrimary(flag) == ~flag

\* HybridDataSource.get_klines.  primary: what BinanceAPI.get_klines does
\* ("data": a non-empty frame, "empty": an empty frame, "raise": an exception).
\* Result: <<series, use_alternative after the call, the source that served
\* the call, was the primary invoked>>.
get_klines(symbol, flag, primary, alt, rows) ==
    IF UsePrimary(flag)
    THEN CASE primary = "data"  -> <<rows, flag, "primary", TRUE>>
           [] primary = "empty" ->
                <<get_klines_alternative(symbol, alt, rows), flag, "fallback", TRUE>>
           [] OTHER             ->
                <<get_klines_alternative(symbol, alt, rows), TRUE, "fallback", TRUE>>
    ELSE <<get_klines_alternative(symbol, alt, rows), flag, "fallback", FALSE>>

\* HybridDataSource.get_ticker_price.  primary: what BinanceAPI.get_ticker_price
\* does ("data": a price, "empty": None, "raise": an exception); same result
\* layout as get_klines.
get_ticker_price(symbol, flag, primary, alt) ==
    IF UsePrimary(flag)
    THEN CASE primary = "data"  -> <<"price", flag, "primary", TRUE>>
           [] primary = "empty" ->
                <<get_current_price_coingecko(symbol, alt), flag, "fallback", TRUE>>
           [] OTHER             ->
                <<get_current_price_coingecko(symbol, alt), TRUE, "fallback", TRUE>>
    ELSE <<get_current_price_coingecko(symbol, alt), flag, "fallback", FALSE>>

\* what BinanceAPI.get_klines can do: return a frame with rows, return an
\* empty frame (the exchange answered with an empty list), or raise
KlinesOutcomes == {"data", "empty", "raise"}

\* what BinanceAPI.get_ticker_price can do: return float(data['price']) or
\* raise; it never returns None
TickerOutcomes == {"data", "raise"}

\* TrendAnalyzer.analyze_trend: a short series gives UNKNOWN, otherwise the
\* rule evaluation gives one of the three trend categories
AnalyzeOutcomes(series) ==
    IF series = "short" THEN {UNKNOWN} ELSE {SIDEWAYS, UPTREND, DOWNTREND}

\* HybridDataSource.test_connectivity returns a dict source -> bool
Sources == {"binance", "coingecko", "cryptocompare"}

\* Python truthiness of a dict: non-empty
Truthy(d) == DOMAIN d # {}

----------------------------------------------------------------------------
(* Tasks *)

NewTask(symbol, timeframe) ==
    [sym |-> symbol, tf |-> timeframe, pc |-> "queued", df |-> NoValue,
     prev |-> NoValue, cur |-> NoValue, changed |-> FALSE,
     alerted |-> FALSE, result |-> NoValue]

\* tasks occupying a worker of thread t's pool
Running(t) ==
    {i \in 1..Len(futures[t]) :
        futures[t][i].pc \in {"running", "fetched", "locked", "written"}}

SetTask(id, rec) ==
    [futures EXCEPT ![id[1]] = [@ EXCEPT ![id[2]] = rec]]

\* direct clients of the HybridDataSource instance
MaxClients == 2

Clients == 1..MaxClients

\* no call made yet
NoCall == [op |-> NoValue, sym |-> <<>>, primary |-> NoValue,
           invoked |-> FALSE, served |-> NoValue, value |-> NoValue]

\* no analyze_trend call under study
NoClassification == [pc |-> "none"]

\* "https://data-api.binance.vision", the endpoint of BinanceAPI() without
\* base_url
DefaultEndpoint == "data-api"

\* self.rate_limit_interval (0.1 s), in ticks of the clock
RateLimitInterval == 2

\* the clock stops at this tick
MaxClock == 5

\* threads that share the BinanceAPI instance
MaxRequesters == 2

Requesters == 1..MaxRequesters

\* a thread that is not inside _make_request
NoRequest == [pc |-> "idle", wake |-> 0, start |-> NoValue, tried |-> <<>>,
              result |-> NoValue]

\* config['symbols']: the validator asks for a non-empty list only
ConfigSymbols == {<<BTC>>, <<DOGE>>, <<BTC, DOGE>>, <<BTC, BTC>>, <<BTC, PERP>>}

\* TrendMonitor.__init__ and HybridDataSource.__init__
InitMonitor ==
    /\ symbols \in ConfigSymbols
    /\ trend_history = [k \in AllKeys |-> Absent]
    /\ is_monitoring = FALSE
    /\ monitor_thread = NoThread
    /\ lock = FreeLock
    /\ use_alternative = FALSE
    /\ loopPc = [t \in Threads |-> "none"]
    /\ idx = [t \in Threads |-> 0]
    /\ max_workers = [t \in Threads |-> 0]
    /\ futures = [t \in Threads |-> <<>>]
    /\ completed_count = [t \in Threads |-> 0]
    /\ error_count = [t \in Threads |-> 0]
    /\ callerPc = "idle"
    /\ callerArg = <<>>
    /\ lastOp = "none"
    /\ elapsed_time = [t \in Threads |-> 0]
    /\ sleep_time = [t \in Threads |-> 0]
    /\ calls = [c \in Clients |-> NoCall]

\* no classification under study
InitAnalyzer == classified = NoClassification

\* BinanceAPI.__init__ without base_url: one endpoint, no request made
InitBinance ==
    /\ api_endpoints = <<DefaultEndpoint>>
    /\ base_url = DefaultEndpoint
    /\ last_request_time = 0
    /\ now = RateLimitInterval
    /\ reqs = [r \in Requesters |-> NoRequest]

Init == InitMonitor /\ InitAnalyzer /\ InitBinance

----------------------------------------------------------------------------
(* Caller commands *)

Alive(t) == t # NoThread /\ loopPc[t] # "none"

FreeSlots == {t \in Threads : loopPc[t] = "none"}

\* list.remove(x): removes the first occurrence
RECURSIVE ListRemove(_, _)
ListRemove(list, x) ==
    IF list = <<>> THEN <<>>
    ELSE IF Head(list) = x THEN Tail(list)
    ELSE <<Head(list)>> \o ListRemove(Tail(list), x)

InList(x, list) == \E n \in 1..Len(list) : list[n] = x

\* key.startswith(f"{symbol}_")
StartsWith(key, prefix) ==
    /\ Len(key) >= Len(prefix)
    /\ SubSeq(key, 1, Len(prefix)) = prefix

\* variant: start_monitoring without its early return
AlreadyRunningIgnored(flag) == FALSE

\* "if self.is_monitoring: return" at the head of start_monitoring
AlreadyRunning(flag) == flag

\* TrendMonitor.start_monitoring: the early return, the connectivity probe
\* ("if not self.api.test_connectivity()", a test of the returned dict) and
\* the launch of the loop thread
start_monitoring ==
    /\ callerPc = "idle"
    /\ is_monitoring \/ FreeSlots # {}
    /\ IF AlreadyRunning(is_monitoring)
       THEN /\ lastOp' = "start_noop"
            /\ UNCHANGED <<is_monitoring, monitor_thread, loopPc>>
       ELSE \E results \in [Sources -> BOOLEAN] :
            /\ IF ~Truthy(results)
               THEN /\ lastOp' = "start_abort"
                    /\ UNCHANGED <<is_monitoring, monitor_thread, loopPc>>
               ELSE LET t == CHOOSE u \in FreeSlots : \A w \in FreeSlots : u <= w
                    IN /\ is_monitoring' = TRUE
                       /\ monitor_thread' = t
                       /\ loopPc' = [loopPc EXCEPT ![t] = "check"]
                       /\ lastOp' = IF \E s \in Sources : results[s]
                                    THEN "started"
                                    ELSE "started_unreachable"
    /\ UNCHANGED <<symbols, trend_history, lock, use_alternative, idx,
                   max_workers, futures, completed_count, error_count,
                   callerPc, callerArg>>
    /\ UNCHANGED <<elapsed_time, sleep_time, calls, classified, binanceVars>>

\* TrendMonitor.stop_monitoring up to the join
stop_monitoring ==
    /\ callerPc = "idle"
    /\ is_monitoring' = FALSE
    /\ IF Alive(monitor_thread)
       THEN callerPc' = "joining" /\ UNCHANGED lastOp
       ELSE lastOp' = "stopped" /\ UNCHANGED callerPc
    /\ UNCHANGED <<symbols, trend_history, monitor_thread, lock,
                   use_alternative, loopPc, idx, max_workers, futures,
                   completed_count, error_count, callerArg>>
    /\ UNCHANGED <<elapsed_time, sleep_time, calls, classified, binanceVars>>

\* join(timeout=5) returns: the thread has ended or the timeout has elapsed
stop_join_return ==
    /\ callerPc = "joining"
    /\ callerPc' = "idle"
    /\ lastOp' = "stopped"
    /\ UNCHANGED <<symbols, trend_history, is_monitoring, monitor_thread, lock,
                   use_alternative, loopPc, idx, max_workers, futures,
                   completed_count, error_count, callerArg>>
    /\ UNCHANGED <<elapsed_time, sleep_time, calls, classified, binanceVars>>

\* variant: add_symbol appends without looking at the list
ShouldAppendAlways(symbol, list) == TRUE

\* "if symbol not in self.symbols"
ShouldAppend(symbol, list) == ~InList(symbol, list)

\* TrendMonitor.add_symbol: the append and the INFO system alert, or nothing
add_symbol(symbol) ==
    /\ callerPc = "idle"
    /\ IF ShouldAppend(symbol, symbols)
       THEN symbols' = Append(symbols, symbol) /\ lastOp' = "added"
       ELSE UNCHANGED symbols /\ lastOp' = "add_noop"
    /\ UNCHANGED <<trend_history, is_monitoring, monitor_thread, lock,
                   use_alternative, loopPc, idx, max_workers, futures,
                   completed_count, error_count, callerPc, callerArg>>
    /\ UNCHANGED <<elapsed_time, sleep_time, calls, classified, binanceVars>>

\* TrendMonitor.remove_symbol up to the acquisition of the lock
remove_symbol(symbol) ==
    /\ callerPc = "idle"
    /\ IF InList(symbol, symbols)
       THEN /\ symbols' = ListRemove(symbols, symbol)
            /\ callerPc' = "purging"
            /\ callerArg' = symbol
            /\ UNCHANGED lastOp
       ELSE /\ lastOp' = "remove_noop"
            /\ UNCHANGED <<symbols, callerPc, callerArg>>
    /\ UNCHANGED <<trend_history, is_monitoring, monitor_thread, lock,
                   use_alternative, loopPc, idx, max_workers, futures,
                   completed_count, error_count>>
    /\ UNCHANGED <<elapsed_time, sleep_time, calls, classified, binanceVars>>

\* variant: the critical sections are entered without the lock
LockIgnored(l) == TRUE

\* the lock is free for a new holder
LockAvailable(l) == l = FreeLock

\* remove_symbol: "with self.lock" block that deletes the symbol's keys
remove_symbol_purge ==
    /\ callerPc = "purging"
    /\ LockAvailable(lock)
    /\ trend_history' =
         [k \in AllKeys |->
            IF StartsWith(k, callerArg \o <<"_">>) THEN Absent
            ELSE trend_history[k]]
    /\ callerPc' = "idle"
    /\ callerArg' = <<>>
    /\ lastOp' = "removed"
    /\ UNCHANGED <<symbols, is_monitoring, monitor_thread, lock,
                   use_alternative, loopPc, idx, max_workers, futures,
                   completed_count, error_count>>
    /\ UNCHANGED <<elapsed_time, sleep_time, calls, classified, binanceVars>>

\* number of parts key.split('_') returns
SplitCount(key) == Cardinality({n \in DOMAIN key : key[n] = "_"}) + 1

\* TrendMonitor.get_current_status: the "with self.lock" block that builds
\* trend_summary; "symbol, timeframe = key.split('_')" raises ValueError for
\* a key that does not split into two parts, and the with statement
\* releases the lock on either way out
get_current_status ==
    /\ callerPc = "idle"
    /\ LockAvailable(lock)
    /\ lastOp' = IF \E k \in AllKeys :
                       trend_history[k] # Absent /\ SplitCount(k) # 2
                 THEN "status_raised"
                 ELSE "status"
    /\ UNCHANGED <<symbols, trend_history, is_monitoring, monitor_thread, lock,
                   use_alternative, loopPc, idx, max_workers, futures,
                   completed_count, error_count, callerPc, callerArg>>
    /\ UNCHANGED <<elapsed_time, sleep_time, calls, classified, binanceVars>>

----------------------------------------------------------------------------
(* Loop thread: _monitoring_loop and _perform_monitoring_round *)

\* variant: "while True"
LoopContinueAlways(flag) == TRUE

\* the loop condition "while self.is_monitoring"
LoopContinue(flag) == flag

\* the loop thread evaluates its loop condition and ends when it is false
LoopCheck(t) ==
    /\ loopPc[t] = "check"
    /\ loopPc' = [loopPc EXCEPT
          ![t] = IF LoopContinue(is_monitoring) THEN "begin" ELSE "none"]
    /\ UNCHANGED <<symbols, trend_history, is_monitoring, monitor_thread, lock,
                   use_alternative, idx, max_workers, futures,
                   completed_count, error_count, callerPc, callerArg, lastOp>>
    /\ UNCHANGED <<elapsed_time, sleep_time, calls, classified, binanceVars>>

\* AlertManager.send_system_alert: it returns ("sent"), or its console print
\* raises ("raised")
SystemAlertOutcomes == {"sent", "raised"}

\* variant: an exception inside the except clause is swallowed
AfterLoopExceptAlwaysBackoff(outcome) == "backoff"

\* where the loop thread is after its except clause has called
\* send_system_alert('ERROR', ...): in time.sleep(10), or, when the call
\* raised, out of _monitoring_loop (the thread has ended)
AfterLoopExcept(outcome) == IF outcome = "raised" THEN "none" ELSE "backoff"

\* the except clause of _monitoring_loop
LoopExcept(t) ==
    \E outcome \in SystemAlertOutcomes :
        loopPc' = [loopPc EXCEPT ![t] = AfterLoopExcept(outcome)]

\* ThreadPoolExecutor(max_workers=...): raises ValueError when max_workers <= 0;
\* the exception leaves _perform_monitoring_round and reaches the except
\* clause of the loop
BeginRound(t) ==
    /\ loopPc[t] = "begin"
    /\ IF PoolSize(symbols) <= 0
       THEN /\ LoopExcept(t)
            /\ UNCHANGED <<idx, max_workers>>
       ELSE /\ loopPc' = [loopPc EXCEPT ![t] = "submit"]
            /\ max_workers' = [max_workers EXCEPT ![t] = PoolSize(symbols)]
            /\ idx' = [idx EXCEPT ![t] = 1]
    /\ UNCHANGED <<symbols, trend_history, is_monitoring, monitor_thread, lock,
                   use_alternative, futures, completed_count, error_count,
                   callerPc, callerArg, lastOp>>
    /\ UNCHANGED <<elapsed_time, sleep_time, calls, classified, binanceVars>>

\* the tasks submitted for one symbol: one per timeframe
TasksFor(symbol) == [j \in 1..Len(timeframes) |-> NewTask(symbol, timeframes[j])]

\* one step of "for symbol in self.symbols": the list iterator reads the
\* element at its index, or ends when the index is past the current length
SubmitNext(t) ==
    /\ loopPc[t] = "submit"
    /\ IF idx[t] <= Len(symbols)
       THEN /\ futures' = [futures EXCEPT ![t] = @ \o TasksFor(symbols[idx[t]])]
            /\ idx' = [idx EXCEPT ![t] = @ + 1]
            /\ UNCHANGED <<loopPc, completed_count, error_count>>
       ELSE /\ loopPc' = [loopPc EXCEPT ![t] = "collect"]
            /\ completed_count' = [completed_count EXCEPT ![t] = 0]
            /\ error_count' = [error_count EXCEPT ![t] = 0]
            /\ UNCHANGED <<futures, idx>>
    /\ UNCHANGED <<symbols, trend_history, is_monitoring, monitor_thread, lock,
                   use_alternative, max_workers, callerPc, callerArg, lastOp>>
    /\ UNCHANGED <<elapsed_time, sleep_time, calls, classified, binanceVars>>

\* variant: every collected future counts as a success
IsSuccessAlways(result) == TRUE

\* "if result:" on the value a future returns
IsSuccess(result) == result = TRUE

\* one iteration of "for future in as_completed(futures)": the task's locals
\* are gone, its result stays in the future
Collect(t, i) ==
    /\ loopPc[t] = "collect"
    /\ i \in 1..Len(futures[t])
    /\ futures[t][i].pc = "done"
    /\ futures' = SetTask(<<t, i>>, [futures[t][i] EXCEPT
                      !.pc = "collected", !.alerted = FALSE, !.cur = NoValue])
    /\ IF IsSuccess(futures[t][i].result)
       THEN /\ completed_count' = [completed_count EXCEPT ![t] = @ + 1]
            /\ UNCHANGED error_count
       ELSE /\ error_count' = [error_count EXCEPT ![t] = @ + 1]
            /\ UNCHANGED completed_count
    /\ UNCHANGED <<symbols, trend_history, is_monitoring, monitor_thread, lock,
                   use_alternative, loopPc, idx, max_workers, callerPc,
                   callerArg, lastOp>>
    /\ UNCHANGED <<elapsed_time, sleep_time, calls, classified, binanceVars>>

\* self.monitoring_interval, in ticks of the model's clock
MonitoringInterval == 2

\* longest duration of a round, in ticks
MaxElapsed == 3

Max(a, b) == IF a > b THEN a ELSE b

\* variant: the difference is not clamped at zero
SleepTimeUnclamped(elapsed) == MonitoringInterval - elapsed

\* sleep_time = max(0, self.monitoring_interval - elapsed_time)
SleepTime(elapsed) == Max(0, MonitoringInterval - elapsed)

\* variant: the round is left without waiting for its tasks
AllCollectedIgnored(fs) == TRUE

\* the as_completed loop has handled every future of the round
AllCollected(fs) == \A i \in 1..Len(fs) : fs[i].pc = "collected"

\* as_completed is exhausted and the executor is shut down: the round is
\* over; the loop computes elapsed_time and sleep_time and calls
\* time.sleep(sleep_time), which raises ValueError for a negative argument
RoundEnd(t) ==
    /\ loopPc[t] = "collect"
    /\ AllCollected(futures[t])
    /\ \E elapsed \in 0..MaxElapsed :
         /\ elapsed_time' = [elapsed_time EXCEPT ![t] = elapsed]
         /\ sleep_time' = [sleep_time EXCEPT ![t] = SleepTime(elapsed)]
         /\ IF SleepTime(elapsed) < 0
            THEN LoopExcept(t)
            ELSE loopPc' = [loopPc EXCEPT ![t] = "sleep"]
    /\ UNCHANGED <<symbols, trend_history, is_monitoring, monitor_thread, lock,
                   use_alternative, idx, max_workers, futures,
                   completed_count, error_count, callerPc, callerArg, lastOp,
                   calls, classified, binanceVars>>

\* time.sleep returns (after a round or after the 10 s of the error path)
Wake(t) ==
    /\ loopPc[t] \in {"sleep", "backoff"}
    /\ loopPc' = [loopPc EXCEPT ![t] = "check"]
    /\ futures' = [futures EXCEPT ![t] = <<>>]
    /\ idx' = [idx EXCEPT ![t] = 0]
    /\ max_workers' = [max_workers EXCEPT ![t] = 0]
    /\ completed_count' = [completed_count EXCEPT ![t] = 0]
    /\ error_count' = [error_count EXCEPT ![t] = 0]
    /\ elapsed_time' = [elapsed_time EXCEPT ![t] = 0]
    /\ sleep_time' = [sleep_time EXCEPT ![t] = 0]
    /\ UNCHANGED <<symbols, trend_history, is_monitoring, monitor_thread, lock,
                   use_alternative, callerPc, callerArg, lastOp, calls,
                   classified, binanceVars>>

----------------------------------------------------------------------------
(* Per-pair task: _monitor_symbol_timeframe *)

\* variant: the pool starts a thread for every submitted task
WorkerFreeAlways(running, workers) == TRUE

\* ThreadPoolExecutor: a queued task starts when fewer than max_workers
\* tasks are executing
WorkerFree(running, workers) == running < workers

\* a pool worker takes the oldest queued task
StartTask(t, i) ==
    /\ loopPc[t] \in {"submit", "collect"}
    /\ i \in 1..Len(futures[t])
    /\ futures[t][i].pc = "queued"
    /\ \A j \in 1..(i - 1) : futures[t][j].pc # "queued"
    /\ WorkerFree(Cardinality(Running(t)), max_workers[t])
    /\ futures' = SetTask(<<t, i>>, [futures[t][i] EXCEPT !.pc = "running"])
    /\ UNCHANGED <<symbols, trend_history, is_monitoring, monitor_thread, lock,
                   use_alternative, loopPc, idx, max_workers,
                   completed_count, error_count, callerPc, callerArg, lastOp>>
    /\ UNCHANGED <<elapsed_time, sleep_time, calls, classified, binanceVars>>

\* variant: a missing series is passed on to the analysis
FetchRaisesNever(df) == FALSE

\* "if df.empty": evaluating it on None raises AttributeError, which the
\* task's except clause turns into "return False"
FetchRaises(df) == df = "none"

\* what a source delivers: a series with at least the rows of the longest
\* indicator window ("rows") or a shorter, non-empty one ("short")
Series == {"rows", "short"}

\* self.api.get_klines and the df.empty test
Fetch(t, i) ==
    /\ i \in 1..Len(futures[t])
    /\ futures[t][i].pc = "running"
    /\ \E primary \in KlinesOutcomes, alt \in BOOLEAN, rows \in Series :
         LET r == get_klines(futures[t][i].sym, use_alternative, primary, alt, rows)
         IN /\ use_alternative' = r[2]
            /\ IF FetchRaises(r[1])
               THEN futures' = SetTask(<<t, i>>,
                        [futures[t][i] EXCEPT !.pc = "done", !.df = r[1],
                                              !.result = FALSE])
               ELSE futures' = SetTask(<<t, i>>,
                        [futures[t][i] EXCEPT !.pc = "fetched", !.df = r[1]])
    /\ UNCHANGED <<symbols, trend_history, is_monitoring, monitor_thread, lock,
                   loopPc, idx, max_workers, completed_count, error_count,
                   callerPc, callerArg, lastOp>>
    /\ UNCHANGED <<elapsed_time, sleep_time, calls, classified, binanceVars>>

\* get_full_analysis and analyze_trend on the fetched series, then
\* "with self.lock" and previous_trend = self.trend_history.get(key, UNKNOWN)
AnalyzeLockRead(t, i) ==
    /\ i \in 1..Len(futures[t])
    /\ futures[t][i].pc = "fetched"
    /\ LockAvailable(lock)
    /\ lock' = <<t, i>>
    /\ \E current_trend \in AnalyzeOutcomes(futures[t][i].df) :
         futures' = SetTask(<<t, i>>, [futures[t][i] EXCEPT
            !.pc = "locked",
            !.cur = current_trend,
            !.prev = DictGet(trend_history,
                             Key(futures[t][i].sym, futures[t][i].tf), UNKNOWN)])
    /\ UNCHANGED <<symbols, trend_history, is_monitoring, monitor_thread,
                   use_alternative, loopPc, idx, max_workers,
                   completed_count, error_count, callerPc, callerArg, lastOp>>
    /\ UNCHANGED <<elapsed_time, sleep_time, calls, classified, binanceVars>>

\* variant: an UNKNOWN classification is not stored
StoredValueSkipUnknown(old, current_trend) ==
    IF current_trend = UNKNOWN THEN old ELSE current_trend

\* the value the task stores for its key
StoredValue(old, current_trend) == current_trend

\* variant: the task keeps the lock when it leaves the "with" block
ReleasedLockKept(holder) == holder

\* the lock after its holder has left the "with self.lock" block
ReleasedLock(holder) == FreeLock

\* self.trend_history[key] = current_trend, end of the "with" block, and the
\* evaluation of detect_trend_change(current_trend, previous_trend)
WriteUnlock(t, i) ==
    /\ i \in 1..Len(futures[t])
    /\ futures[t][i].pc = "locked"
    /\ LET key == Key(futures[t][i].sym, futures[t][i].tf)
       IN trend_history' = [trend_history EXCEPT
                ![key] = StoredValue(trend_history[key], futures[t][i].cur)]
    /\ futures' = SetTask(<<t, i>>, [futures[t][i] EXCEPT
            !.pc = "written", !.prev = NoValue,
            !.changed = detect_trend_change(futures[t][i].cur,
                                            futures[t][i].prev)])
    /\ lock' = ReleasedLock(lock)
    /\ UNCHANGED <<symbols, is_monitoring, monitor_thread, use_alternative,
                   loopPc, idx, max_workers, completed_count, error_count,
                   callerPc, callerArg, lastOp>>
    /\ UNCHANGED <<elapsed_time, sleep_time, calls, classified, binanceVars>>

\* variant: the alert is sent after every classification
ShouldDispatchAlways(changed) == TRUE

\* does the task call the alert manager
ShouldDispatch(changed) == changed

\* AlertManager.send_trend_change_alert: every channel delivers ("sent"), the
\* webhook post fails and _send_webhook_alert catches it ("webhook_failed"),
\* or the formatting, console or log-file step raises ("raised")
AlertOutcomes == {"sent", "webhook_failed", "raised"}

\* the value the task returns after the call of the alert manager: an
\* exception of the call reaches the task's except clause ("return False")
TaskResult(outcome) == outcome # "raised"

\* variant: the except clause takes the stored trend back
ExceptClauseRollsBack(history, key) == [history EXCEPT ![key] = Absent]

\* effect of the task's except clause on the trend map: it logs and returns
ExceptClause(history, key) == history

\* the call of send_trend_change_alert when the change was detected, and the
\* return of the task
Dispatch(t, i) ==
    /\ i \in 1..Len(futures[t])
    /\ futures[t][i].pc = "written"
    /\ IF ShouldDispatch(futures[t][i].changed)
       THEN \E outcome \in AlertOutcomes :
            /\ futures' = SetTask(<<t, i>>, [futures[t][i] EXCEPT
                    !.pc = "done", !.changed = FALSE, !.alerted = TRUE,
                    !.result = TaskResult(outcome)])
            /\ trend_history' =
                  IF outcome = "raised"
                  THEN ExceptClause(trend_history,
                                    Key(futures[t][i].sym, futures[t][i].tf))
                  ELSE trend_history
       ELSE /\ futures' = SetTask(<<t, i>>, [futures[t][i] EXCEPT
                    !.pc = "done", !.changed = FALSE, !.result = TRUE])
            /\ UNCHANGED trend_history
    /\ UNCHANGED <<symbols, is_monitoring, monitor_thread, lock,
                   use_alternative, loopPc, idx, max_workers,
                   completed_count, error_count, callerPc, callerArg, lastOp>>
    /\ UNCHANGED <<elapsed_time, sleep_time, calls, classified, binanceVars>>

----------------------------------------------------------------------------
(* Direct calls of the HybridDataSource instance *)

\* the record a client keeps of its call
CallRecord(op, symbol, flag, primary, r) ==
    [op |-> op, sym |-> symbol,
     primary |-> IF r[4] THEN primary ELSE "skipped",
     invoked |-> r[4], served |-> r[3], value |-> r[1]]

\* a client calls HybridDataSource.get_klines
HybridGetKlines(c) ==
    /\ \E symbol \in {BTC, DOGE}, primary \in KlinesOutcomes,
          alt \in BOOLEAN, rows \in Series :
         LET r == get_klines(symbol, use_alternative, primary, alt, rows)
         IN /\ use_alternative' = r[2]
            /\ calls' = [calls EXCEPT ![c] =
                  CallRecord("get_klines", symbol, use_alternative, primary, r)]
    /\ UNCHANGED <<symbols, trend_history, is_monitoring, monitor_thread, lock,
                   loopPc, idx, max_workers, futures, completed_count,
                   error_count, callerPc, callerArg, lastOp, elapsed_time,
                   sleep_time, classified, binanceVars>>

\* a client calls HybridDataSource.get_ticker_price
HybridGetTickerPrice(c) ==
    /\ \E symbol \in {BTC, DOGE}, primary \in TickerOutcomes, alt \in BOOLEAN :
         LET r == get_ticker_price(symbol, use_alternative, primary, alt)
         IN /\ use_alternative' = r[2]
            /\ calls' = [calls EXCEPT ![c] =
                  CallRecord("get_ticker_price", symbol, use_alternative, primary, r)]
    /\ UNCHANGED <<symbols, trend_history, is_monitoring, monitor_thread, lock,
                   loopPc, idx, max_workers, futures, completed_count,
                   error_count, callerPc, callerArg, lastOp, elapsed_time,
                   sleep_time, classified, binanceVars>>

----------------------------------------------------------------------------
(* TrendAnalyzer.analyze_trend *)

\* largest indicator period of the configurations under study
MaxPeriod == 2

\* longest series under study
MaxLen == 3

\* sum(conditions): the number of true entries of a list of booleans
Sum(conditions) == Cardinality({n \in DOMAIN conditions : conditions[n]})

\* variant: the uptrend rule is evaluated before the sideways rule
determine_trend_type_uptrend_first(sideways, uptrend, downtrend) ==
    IF Sum(uptrend) >= 2 THEN UPTREND
    ELSE IF Sum(sideways) >= 3 THEN SIDEWAYS
    ELSE IF Sum(downtrend) >= 2 THEN DOWNTREND
    ELSE SIDEWAYS

\* TrendAnalyzer._determine_trend_type on the truth values of its four
\* sideways, three uptrend and three downtrend conditions
determine_trend_type(sideways, uptrend, downtrend) ==
    IF Sum(sideways) >= 3 THEN SIDEWAYS
    ELSE IF Sum(uptrend) >= 2 THEN UPTREND
    ELSE IF Sum(downtrend) >= 2 THEN DOWNTREND
    ELSE SIDEWAYS

\* variant: the long moving average is left out of the length test
LongestWindowWithoutMaLong(bb_period, rsi_period, ma_long) ==
    Max(bb_period, rsi_period)

\* max(self.bb_period, self.rsi_period, self.ma_long)
LongestWindow(bb_period, rsi_period, ma_long) ==
    Max(bb_period, Max(rsi_period, ma_long))

\* the keys of the analysis dict built from the latest row
AnalysisFields ==
    {"price", "bb_position", "bb_width", "rsi", "ma_diff_pct", "volatility",
     "price_range_pct"}

\* TrendAnalyzer.analyze_trend on a frame of len rows: the trend, the keys of
\* the returned dict and whether _determine_trend_type was called
analyze_trend(len, bb_period, rsi_period, ma_long, sideways, uptrend, downtrend) ==
    IF len < LongestWindow(bb_period, rsi_period, ma_long)
    THEN [trend |-> UNKNOWN, analysis |-> {"reason"}, evaluated |-> FALSE]
    ELSE [trend |-> determine_trend_type(sideways, uptrend, downtrend),
          analysis |-> AnalysisFields, evaluated |-> TRUE]

\* the calls under study: a frame length, the three periods of the
\* configuration and the truth values the conditions have on the frame
ClassifierInputs ==
    [pc : {"input"}, len : 0..MaxLen, bb_period : 1..MaxPeriod,
     rsi_period : 1..MaxPeriod, ma_long : 1..MaxPeriod,
     sideways : [1..4 -> BOOLEAN], uptrend : [1..3 -> BOOLEAN],
     downtrend : [1..3 -> BOOLEAN]]

\* the call of analyze_trend on the input under study
Classify ==
    /\ classified.pc = "input"
    /\ LET r == analyze_trend(classified.len, classified.bb_period,
                    classified.rsi_period, classified.ma_long,
                    classified.sideways, classified.uptrend,
                    classified.downtrend)
       IN classified' = [pc |-> "done", len |-> classified.len,
                         bb_period |-> classified.bb_period,
                         rsi_period |-> classified.rsi_period,
                         ma_long |-> classified.ma_long,
                         sideways |-> classified.sideways,
                         uptrend |-> classified.uptrend,
                         downtrend |-> classified.downtrend,
                         trend |-> r.trend, analysis |-> r.analysis,
                         evaluated |-> r.evaluated]
    /\ UNCHANGED <<symbols, trend_history, is_monitoring, monitor_thread, lock,
                   use_alternative, loopPc, idx, max_workers, futures,
                   completed_count, error_count, callerPc, callerArg, lastOp,
                   elapsed_time, sleep_time, calls, binanceVars>>

----------------------------------------------------------------------------
(* BinanceAPI._rate_limit and BinanceAPI._make_request *)

\* time passes
Tick ==
    /\ now < MaxClock
    /\ now' = now + 1
    /\ UNCHANGED <<symbols, trend_history, is_monitoring, monitor_thread, lock,
                   use_alternative, loopPc, idx, max_workers, futures,
                   completed_count, error_count, callerPc, callerArg, lastOp,
                   elapsed_time, sleep_time, calls, classified, api_endpoints,
                   base_url, last_request_time, reqs>>

\* _rate_limit: current_time = time.time(), time_since_last, and the test
\* "if time_since_last < self.rate_limit_interval", which sends the thread
\* into time.sleep(self.rate_limit_interval - time_since_last)
RateRead(r) ==
    /\ reqs[r].pc \in {"idle", "done"}
    /\ LET time_since_last == now - last_request_time
       IN reqs' = [reqs EXCEPT ![r] =
             IF time_since_last < RateLimitInterval
             THEN [pc |-> "sleeping",
                   wake |-> now + (RateLimitInterval - time_since_last),
                   start |-> NoValue, tried |-> <<>>, result |-> NoValue]
             ELSE [pc |-> "stamp", wake |-> 0, start |-> NoValue,
                   tried |-> <<>>, result |-> NoValue]]
    /\ UNCHANGED <<symbols, trend_history, is_monitoring, monitor_thread, lock,
                   use_alternative, loopPc, idx, max_workers, futures,
                   completed_count, error_count, callerPc, callerArg, lastOp,
                   elapsed_time, sleep_time, calls, classified, api_endpoints,
                   base_url, last_request_time, now>>

\* _rate_limit: time.sleep returns
RateWake(r) ==
    /\ reqs[r].pc = "sleeping"
    /\ now >= reqs[r].wake
    /\ reqs' = [reqs EXCEPT ![r].pc = "stamp"]
    /\ UNCHANGED <<symbols, trend_history, is_monitoring, monitor_thread, lock,
                   use_alternative, loopPc, idx, max_workers, futures,
                   completed_count, error_count, callerPc, callerArg, lastOp,
                   elapsed_time, sleep_time, calls, classified, api_endpoints,
                   base_url, last_request_time, now>>

\* _rate_limit: self.last_request_time = time.time(); the thread returns to
\* _make_request and its request starts
RateStamp(r) ==
    /\ reqs[r].pc = "stamp"
    /\ last_request_time' = now
    /\ reqs' = [reqs EXCEPT ![r].pc = "request", ![r].start = now]
    /\ UNCHANGED <<symbols, trend_history, is_monitoring, monitor_thread, lock,
                   use_alternative, loopPc, idx, max_workers, futures,
                   completed_count, error_count, callerPc, callerArg, lastOp,
                   elapsed_time, sleep_time, calls, classified, api_endpoints,
                   base_url, now>>

\* position of the first endpoint that answers, 0 when none does
FirstOk(ok) ==
    IF \E n \in DOMAIN ok : ok[n]
    THEN CHOOSE n \in DOMAIN ok : ok[n] /\ \A m \in DOMAIN ok : ok[m] => n <= m
    ELSE 0

\* _make_request: "for api_url in self.api_endpoints": the endpoints are
\* contacted in list order until one answers (ok); a success sets base_url
\* and returns, and when every endpoint failed the last exception is raised
SendRequest(r) ==
    /\ reqs[r].pc = "request"
    /\ \E ok \in [1..Len(api_endpoints) -> BOOLEAN] :
         LET first == FirstOk(ok)
         IN IF first # 0
            THEN /\ reqs' = [reqs EXCEPT ![r].pc = "done",
                                ![r].tried = SubSeq(api_endpoints, 1, first),
                                ![r].result = api_endpoints[first]]
                 /\ base_url' = api_endpoints[first]
            ELSE /\ reqs' = [reqs EXCEPT ![r].pc = "done",
                                ![r].tried = api_endpoints,
                                ![r].result = "raise"]
                 /\ UNCHANGED base_url
    /\ UNCHANGED <<symbols, trend_history, is_monitoring, monitor_thread, lock,
                   use_alternative, loopPc, idx, max_workers, futures,
                   completed_count, error_count, callerPc, callerArg, lastOp,
                   elapsed_time, sleep_time, calls, classified, api_endpoints,
                   last_request_time, now>>

----------------------------------------------------------------------------
(* Specifications *)

\* range of task indices quantified over by the next-state relations
MaxTasks == 2

Lifecycle ==
    \/ start_monitoring
    \/ stop_monitoring
    \/ stop_join_return

\* the symbols named in add and remove commands
CommandSymbols == {BTC, PERP}

Membership ==
    \/ \E s \in CommandSymbols : add_symbol(s)
    \/ \E s \in CommandSymbols : remove_symbol(s)
    \/ remove_symbol_purge

Loop ==
    \/ \E t \in Threads : LoopCheck(t)
    \/ \E t \in Threads : BeginRound(t)
    \/ \E t \in Threads : SubmitNext(t)
    \/ \E t \in Threads, i \in 1..MaxTasks : Collect(t, i)
    \/ \E t \in Threads : RoundEnd(t)
    \/ \E t \in Threads : Wake(t)

Worker ==
    \/ \E t \in Threads, i \in 1..MaxTasks : StartTask(t, i)
    \/ \E t \in Threads, i \in 1..MaxTasks : Fetch(t, i)
    \/ \E t \in Threads, i \in 1..MaxTasks : AnalyzeLockRead(t, i)
    \/ \E t \in Threads, i \in 1..MaxTasks : WriteUnlock(t, i)
    \/ \E t \in Threads, i \in 1..MaxTasks : Dispatch(t, i)

\* start/stop sequences over a monitor configured with one symbol: every
\* loop thread that is alive runs rounds of one task for the same key
InitOne == Init /\ symbols = <<BTC>>

Next == Lifecycle \/ Loop \/ Worker

Spec == InitOne /\ [][Next]_vars

\* a monitor configured with two symbols (a mapped and an unmapped one, or
\* the same symbol twice) or with one symbol, started and never stopped: one
\* loop thread, rounds of at most two tasks
InitTwo == Init /\ symbols \in {<<BTC, DOGE>>, <<BTC, BTC>>, <<DOGE>>}

NextRound == start_monitoring \/ Loop \/ Worker

RoundSpec == InitTwo /\ [][NextRound]_vars

\* threads are scheduled, sleeps end, and every network call of a task has a
\* timeout (15 s for candles, 10 s for the webhook), so each enabled step of
\* a loop thread or of a task is eventually taken
Fairness ==
    /\ \A t \in Threads :
         /\ WF_vars(LoopCheck(t))
         /\ WF_vars(BeginRound(t))
         /\ WF_vars(SubmitNext(t))
         /\ WF_vars(RoundEnd(t))
         /\ WF_vars(Wake(t))
         /\ \A i \in 1..MaxTasks :
              /\ WF_vars(Collect(t, i))
              /\ WF_vars(StartTask(t, i))
              /\ WF_vars(Fetch(t, i))
              /\ WF_vars(AnalyzeLockRead(t, i))
              /\ WF_vars(WriteUnlock(t, i))
              /\ WF_vars(Dispatch(t, i))
    /\ WF_vars(stop_join_return)

FairRoundSpec == RoundSpec /\ Fairness

\* a running monitor (one loop thread, two symbols) on which stop_monitoring
\* is called and start_monitoring is not called again
InitRunning ==
    /\ symbols = <<BTC, DOGE>>
    /\ trend_history = [k \in AllKeys |-> Absent]
    /\ is_monitoring = TRUE
    /\ monitor_thread = 1
    /\ lock = FreeLock
    /\ use_alternative = FALSE
    /\ loopPc = [t \in Threads |-> IF t = 1 THEN "check" ELSE "none"]
    /\ idx = [t \in Threads |-> 0]
    /\ max_workers = [t \in Threads |-> 0]
    /\ futures = [t \in Threads |-> <<>>]
    /\ completed_count = [t \in Threads |-> 0]
    /\ error_count = [t \in Threads |-> 0]
    /\ callerPc = "idle"
    /\ callerArg = <<>>
    /\ lastOp = "started"
    /\ elapsed_time = [t \in Threads |-> 0]
    /\ sleep_time = [t \in Threads |-> 0]
    /\ calls = [c \in Clients |-> NoCall]
    /\ classified = NoClassification
    /\ api_endpoints = <<DefaultEndpoint>>
    /\ base_url = DefaultEndpoint
    /\ last_request_time = 0
    /\ now = RateLimitInterval
    /\ reqs = [r \in Requesters |-> NoRequest]

NextStop == stop_monitoring \/ stop_join_return \/ Loop \/ Worker

StopSpec == InitRunning /\ [][NextStop]_vars

FairStopSpec == StopSpec /\ Fairness

\* a monitor whose symbol list is edited by add and remove commands before
\* and after it is started; it is not stopped, so there is one loop thread
InitMember == Init /\ symbols \in {<<BTC>>, <<BTC, PERP>>}

NextMember == start_monitoring \/ Membership \/ Loop \/ Worker

MemberSpec == InitMember /\ [][NextMember]_vars

\* clients that call get_klines and get_ticker_price on one HybridDataSource
\* instance; the monitor is not started
InitData == Init /\ symbols = <<BTC>>

NextData ==
    \/ \E c \in Clients : HybridGetKlines(c)
    \/ \E c \in Clients : HybridGetTickerPrice(c)

DataSpec == InitData /\ [][NextData]_vars

\* analyze_trend applied to every input of ClassifierInputs
InitClassify ==
    /\ InitMonitor
    /\ symbols = <<BTC>>
    /\ classified \in ClassifierInputs
    /\ InitBinance

NextClassify == Classify

ClassifySpec == InitClassify /\ [][NextClassify]_vars

\* a monitor with two symbols of which one (BTC) is removed and added again
\* by commands while rounds run; the other (PERP) is never touched and stays
\* in the list
InitSubmit == Init /\ symbols = <<BTC, PERP>>

NextSubmit ==
    \/ start_monitoring
    \/ \E s \in {BTC} : add_symbol(s)
    \/ \E s \in {BTC} : remove_symbol(s)
    \/ remove_symbol_purge
    \/ Loop
    \/ Worker

SubmitSpec == InitSubmit /\ [][NextSubmit]_vars

\* a running monitor with two symbols whose status is queried and whose
\* second symbol is removed while rounds run
InitStatus == Init /\ symbols = <<BTC, PERP>>

NextStatus ==
    \/ start_monitoring
    \/ get_current_status
    \/ \E s \in {PERP} : remove_symbol(s)
    \/ remove_symbol_purge
    \/ Loop
    \/ Worker

StatusSpec == InitStatus /\ [][NextStatus]_vars

FairStatusSpec == StatusSpec /\ Fairness

\* threads that call _make_request on one BinanceAPI instance whose endpoint
\* list has one or two entries
InitRequests ==
    /\ InitMonitor
    /\ symbols = <<BTC>>
    /\ InitAnalyzer
    /\ api_endpoints \in {<<DefaultEndpoint>>, <<DefaultEndpoint, "mirror">>}
    /\ base_url = api_endpoints[1]
    /\ last_request_time = 0
    /\ now = RateLimitInterval
    /\ reqs = [r \in Requesters |-> NoRequest]

NextRequests ==
    \/ Tick
    \/ \E r \in Requesters : RateRead(r)
    \/ \E r \in Requesters : RateWake(r)
    \/ \E r \in Requesters : RateStamp(r)
    \/ \E r \in Requesters : SendRequest(r)

RequestSpec == InitRequests /\ [][NextRequests]_vars

----------------------------------------------------------------------------
(* Properties *)

\* the six transitions that warrant a notification, as (previous, current)
SixPairs ==
    { <<SIDEWAYS, UPTREND>>, <<SIDEWAYS, DOWNTREND>>, <<UPTREND, SIDEWAYS>>,
      <<DOWNTREND, SIDEWAYS>>, <<UPTREND, DOWNTREND>>, <<DOWNTREND, UPTREND>> }

\* task i of thread t moves from position a to position b in this step
Moves(t, i, a, b) ==
    /\ futures[t][i].pc = a
    /\ i <= Len(futures'[t])
    /\ futures'[t][i].pc = b

KeyOf(t, i) == Key(futures[t][i].sym, futures[t][i].tf)

Entries == {k \in AllKeys : trend_history[k] # Absent}

\* C1: detect_trend_change(current, previous) is true exactly for the six
\* ordered pairs (previous, current) of the allow-list; it is false whenever
\* previous is Unknown, current is Unknown or previous equals current.
C1_DetectTrendChange ==
    [][\A t \in Threads : \A i \in 1..Len(futures[t]) :
         Moves(t, i, "locked", "written") =>
           LET previous == futures[t][i].prev
               current == futures[t][i].cur
           IN /\ futures'[t][i].changed <=> (<<previous, current>> \in SixPairs)
              /\ (previous = UNKNOWN \/ current = UNKNOWN \/ previous = current)
                    => ~futures'[t][i].changed]_vars

C1_Witness ==
    \E t \in Threads : \E i \in 1..Len(futures[t]) :
        futures[t][i].pc = "written" /\ futures[t][i].changed

\* C2: a task that completes classification dispatches a trend-change alert
\* if and only if (previous, current) is allow-listed, where previous is the
\* value stored for the key when the task writes current; no alert is
\* dispatched for a key without entry (first classification) or when the
\* stored trend does not change.
C2_AlertIffAllowListed ==
    [][\A t \in Threads : \A i \in 1..Len(futures[t]) :
         /\ Moves(t, i, "locked", "written") =>
              LET stored == DictGet(trend_history, KeyOf(t, i), UNKNOWN)
              IN /\ trend_history'[KeyOf(t, i)] = futures[t][i].cur
                 /\ futures'[t][i].changed <=>
                       (<<stored, futures[t][i].cur>> \in SixPairs)
                 /\ trend_history[KeyOf(t, i)] = Absent => ~futures'[t][i].changed
                 /\ trend_history'[KeyOf(t, i)] = trend_history[KeyOf(t, i)]
                       => ~futures'[t][i].changed
         /\ Moves(t, i, "written", "done") =>
              (futures'[t][i].alerted <=> futures[t][i].changed)
         /\ (futures[t][i].pc # "written" /\ i <= Len(futures'[t])
               /\ futures'[t][i].alerted) => futures[t][i].alerted]_vars

C2_Witness ==
    \E t \in Threads : \E i \in 1..Len(futures[t]) :
        futures[t][i].pc = "done" /\ futures[t][i].alerted

\* C3: the read-previous/write-current steps of concurrent tasks are
\* serialized by the lock: a task between its read and its write holds the
\* lock, and the previous trend it read is still the stored value, i.e. the
\* current trend written by the task that held the lock immediately before
\* (Unknown when there is none), so no update is lost.
C3_LockSerializes ==
    \A t \in Threads : \A i \in 1..Len(futures[t]) :
        futures[t][i].pc = "locked" =>
            /\ lock = <<t, i>>
            /\ futures[t][i].prev = DictGet(trend_history, KeyOf(t, i), UNKNOWN)

\* two tasks of one key, one inside the critical section and one waiting
C3_Witness ==
    \E t \in Threads, u \in Threads :
      \E i \in 1..Len(futures[t]), j \in 1..Len(futures[u]) :
        /\ <<t, i>> # <<u, j>>
        /\ KeyOf(t, i) = KeyOf(u, j)
        /\ futures[t][i].pc = "locked"
        /\ futures[u][j].pc = "fetched"

NoDuplicates(list) ==
    \A m \in 1..Len(list), n \in 1..Len(list) : list[m] = list[n] => m = n

PairKeys == {Key(symbols[n], timeframes[j]) :
                n \in 1..Len(symbols), j \in 1..Len(timeframes)}

C4_RoundDone(t) ==
    /\ loopPc[t] = "sleep"
    /\ NoDuplicates(symbols)
    /\ Len(futures[t]) = Len(symbols) * Len(timeframes)
    /\ \A i \in 1..Len(futures[t]) : futures[t][i].df # "none"

\* C4: after one round over N distinct pairs whose fetches all succeed the
\* trend map holds exactly N entries, one per pair, whatever the
\* interleaving of the tasks; the map changes only when a task stores its
\* classification under its own key.
C4_RoundWritesEveryPair ==
    /\ [](\A t \in Threads : C4_RoundDone(t) =>
            /\ Entries = PairKeys
            /\ Cardinality(Entries) = Len(symbols) * Len(timeframes))
    /\ [][trend_history' # trend_history =>
            \E t \in Threads : \E i \in 1..Len(futures[t]) :
               /\ Moves(t, i, "locked", "written")
               /\ trend_history' = [trend_history EXCEPT
                                       ![KeyOf(t, i)] = futures[t][i].cur]]_vars

C4_Witness ==
    /\ C4_RoundDone(1)
    /\ symbols = <<BTC, DOGE>>
    /\ Cardinality(Entries) = 2

\* C5: when the connectivity probe reports that no source is reachable,
\* start_monitoring does not enter Running and launches no loop thread.
C5_UnreachableProbeAborts ==
    lastOp = "started_unreachable" =>
        /\ ~is_monitoring
        /\ \A t \in Threads : loopPc[t] = "none"

\* C6: at most one loop thread is executing a round at any time.
C6_SingleLoopThread ==
    Cardinality({t \in Threads : loopPc[t] \in {"submit", "collect"}}) <= 1

\* C7: start_monitoring while Running is a no-op: no step taken from a
\* Running state probes the data sources or launches a loop thread, and the
\* call leaves is_monitoring, the thread reference, the loop threads and the
\* trend map unchanged.
C7_StartWhileRunningIsNoop ==
    [][is_monitoring =>
         /\ monitor_thread' = monitor_thread
         /\ \A t \in Threads : loopPc[t] = "none" => loopPc'[t] = "none"
         /\ lastOp' # lastOp => lastOp' \in {"start_noop", "stopped"}
         /\ (lastOp' = "start_noop" /\ lastOp # "start_noop") =>
               UNCHANGED <<is_monitoring, monitor_thread, loopPc, trend_history,
                           symbols, futures, lock>>]_vars

C7_Witness == is_monitoring /\ lastOp = "start_noop"

\* C8: after stop_monitoring, with no further start, a loop thread that
\* reaches its loop test ends instead of beginning a round, every loop thread
\* eventually ends, stop_monitoring returns, and its steps leave the tasks in
\* flight untouched.
C8_StopEndsLoop ==
    /\ [][\A t \in Threads :
            (loopPc[t] = "check" /\ ~is_monitoring /\ loopPc'[t] # "check")
                => loopPc'[t] = "none"]_vars
    /\ [][(is_monitoring' # is_monitoring \/ callerPc' # callerPc)
            => UNCHANGED <<futures, loopPc, lock, trend_history>>]_vars
    /\ (~is_monitoring ~> (\A t \in Threads : loopPc[t] = "none"))
    /\ (callerPc = "joining" ~> callerPc = "idle")

\* stop_monitoring has returned while a task of the round is still in flight
C8_Witness ==
    /\ ~is_monitoring
    /\ callerPc = "idle"
    /\ lastOp = "stopped"
    /\ \E t \in Threads : \E i \in 1..Len(futures[t]) :
          futures[t][i].pc \in {"running", "fetched"}

Collected(t, ok) ==
    {i \in 1..Len(futures[t]) :
        futures[t][i].pc = "collected" /\ (futures[t][i].result = TRUE) = ok}

\* C9: every round ends with completed_count + error_count equal to the
\* number of submitted tasks; a failed task increments only error_count, and
\* the round still collects every other task.
C9_RoundAccounting ==
    /\ [](\A t \in Threads : loopPc[t] \in {"collect", "sleep"} =>
            /\ completed_count[t] = Cardinality(Collected(t, TRUE))
            /\ error_count[t] = Cardinality(Collected(t, FALSE))
            /\ loopPc[t] = "sleep" =>
                  completed_count[t] + error_count[t] = Len(futures[t]))
    /\ \A t \in Threads : (loopPc[t] = "submit") ~> (loopPc[t] = "sleep")

C9_Witness ==
    \E t \in Threads :
        /\ loopPc[t] = "sleep"
        /\ completed_count[t] = 1
        /\ error_count[t] = 1

\* C10: candle acquisition fails exactly when the primary gives no usable
\* data and the fallback has no mapping for the symbol or fails; the task
\* then returns failure, dispatches no alert and leaves the trend map
\* unchanged; an entry appears in the trend map only when a task that
\* completed classification stores its result.
C10_FailedFetchLeavesMap ==
    /\ [](\A s \in SymbolUniverse, flag \in BOOLEAN, alt \in BOOLEAN :
          \A primary \in {"data", "empty", "raise"} :
            (get_klines(s, flag, primary, alt, "rows")[1] = "none") <=>
               /\ flag \/ primary # "data"
               /\ s \notin symbol_mapping \/ ~alt)
    /\ [](\A t \in Threads : \A i \in 1..Len(futures[t]) :
            futures[t][i].df = "none" =>
               /\ futures[t][i].pc \in {"done", "collected"}
               /\ futures[t][i].result = FALSE
               /\ ~futures[t][i].alerted)
    /\ [][\A t \in Threads : \A i \in 1..Len(futures[t]) :
            (futures[t][i].pc = "running" /\ i <= Len(futures'[t])
               /\ futures'[t][i].df = "none")
                  => trend_history' = trend_history]_vars
    /\ [][\A k \in AllKeys :
            (trend_history[k] = Absent /\ trend_history'[k] # Absent) =>
               \E t \in Threads : \E i \in 1..Len(futures[t]) :
                  /\ Moves(t, i, "locked", "written")
                  /\ KeyOf(t, i) = k
                  /\ futures[t][i].cur \in TrendType
                  /\ trend_history'[k] = futures[t][i].cur]_vars

\* the task of the unmapped symbol has failed and its key has no entry
C10_Witness ==
    \E t \in Threads : \E i \in 1..Len(futures[t]) :
        /\ futures[t][i].sym = DOGE
        /\ futures[t][i].pc = "done"
        /\ futures[t][i].df = "none"
        /\ trend_history[KeyOf(t, i)] = Absent

ShortTasks(t) ==
    {i \in 1..Len(futures[t]) : futures[t][i].df = "short"}

\* C11: a task whose fetched series is shorter than the longest indicator
\* window is counted as a failure of its round: at the end of the round the
\* failure count covers every such task and none of them is counted as a
\* success.
C11_ShortSeriesCountedAsFailure ==
    \A t \in Threads : loopPc[t] = "sleep" =>
        /\ error_count[t] >= Cardinality(ShortTasks(t))
        /\ completed_count[t] <= Len(futures[t]) - Cardinality(ShortTasks(t))

\* C12: a task writes its current trend to the trend map before it calls
\* the alert manager, and the call, whatever its outcome, leaves the map
\* alone: with one task per key, a task whose dispatch is pending, failed or
\* raised finds its current trend stored under its key; the next task of the
\* key reads the stored value as its previous trend, and a classification
\* equal to it is not reported as a change.
C12_WriteBeforeDispatch ==
    /\ [](\A t \in Threads : \A i \in 1..Len(futures[t]) :
            (/\ NoDuplicates(symbols)
             /\ \/ futures[t][i].pc = "written"
                \/ futures[t][i].pc = "done" /\ futures[t][i].alerted)
              => trend_history[KeyOf(t, i)] = futures[t][i].cur)
    /\ [][\A t \in Threads : \A i \in 1..Len(futures[t]) :
            /\ Moves(t, i, "written", "done") => trend_history' = trend_history
            /\ futures[t][i].pc = "locked" => ~futures[t][i].alerted
            /\ Moves(t, i, "fetched", "locked") =>
                  futures'[t][i].prev = DictGet(trend_history, KeyOf(t, i), UNKNOWN)
            /\ (Moves(t, i, "locked", "written")
                  /\ futures[t][i].cur = futures[t][i].prev)
                    => ~futures'[t][i].changed]_vars

\* the alert manager raised: the task has failed and its trend is stored
C12_Witness ==
    \E t \in Threads : \E i \in 1..Len(futures[t]) :
        /\ NoDuplicates(symbols)
        /\ futures[t][i].pc = "done"
        /\ futures[t][i].alerted
        /\ futures[t][i].result = FALSE
        /\ trend_history[KeyOf(t, i)] = futures[t][i].cur

\* C13: a failure of the alert manager while it delivers a notification
\* leaves the task's outcome alone: a task that called the alert manager
\* returns success.
C13_DispatchFailureKeepsSuccess ==
    \A t \in Threads : \A i \in 1..Len(futures[t]) :
        (futures[t][i].pc = "done" /\ futures[t][i].alerted)
            => futures[t][i].result = TRUE

\* C14: while is_monitoring is true the loop thread does not end: an
\* exception of a round is caught by the loop, reported and followed by the
\* backoff.
C14_LoopSurvivesRoundError ==
    is_monitoring => Alive(monitor_thread)

\* C16: add_symbol appends a symbol only if it is absent: the list, which
\* starts without duplicates, never holds one whatever adds and removes are
\* made; the list only grows by appending an absent symbol, and an add of a
\* symbol already present leaves the list as it is and notifies nobody.
C16_AddIfAbsent ==
    /\ []NoDuplicates(symbols)
    /\ [][/\ Len(symbols') > Len(symbols) =>
               /\ \E s \in CommandSymbols :
                     ~InList(s, symbols) /\ symbols' = Append(symbols, s)
               /\ lastOp' = "added"
          /\ (lastOp' = "add_noop" /\ lastOp # "add_noop") => symbols' = symbols
          /\ (lastOp' = "added" /\ symbols' = symbols) => lastOp = "added"]_vars

\* a symbol was added and then added again
C16_Witness ==
    /\ lastOp = "add_noop"
    /\ symbols = <<PERP, BTC>>

\* C17: the purge of remove_symbol(s) deletes exactly the entries of s and
\* leaves the entry of every other symbol as it was.
C17_RemovePurgesOnlyItsSymbol ==
    [][(callerPc = "purging" /\ callerPc' = "idle") =>
         \A s \in SymbolUniverse : \A j \in 1..Len(timeframes) :
            trend_history'[Key(s, timeframes[j])] =
               IF s = callerArg THEN Absent
               ELSE trend_history[Key(s, timeframes[j])]]_vars

\* C18: while no command is in progress, a symbol that is not in the symbol
\* list (never monitored, or removed and not added again) has no entry in
\* the trend map.
C18_NoEntryAfterRemove ==
    callerPc = "idle" =>
        \A s \in SymbolUniverse : \A j \in 1..Len(timeframes) :
            ~InList(s, symbols) => trend_history[Key(s, timeframes[j])] = Absent

\* C15: after a round the loop waits max(0, monitoring_interval - elapsed):
\* the wait is never negative and is zero when the round took at least the
\* interval; the end of a round always leads to that wait, the wait leads to
\* the loop test with no task left over, a round is only begun from the loop
\* test, and while the monitor is running every wait is followed by the
\* next round.
C15_SleepThenOneRound ==
    /\ [](\A t \in Threads : loopPc[t] = "sleep" =>
            /\ sleep_time[t] >= 0
            /\ sleep_time[t] = IF elapsed_time[t] >= MonitoringInterval
                               THEN 0
                               ELSE MonitoringInterval - elapsed_time[t])
    /\ [][\A t \in Threads :
            /\ (loopPc[t] = "collect" /\ loopPc'[t] # "collect")
                  => loopPc'[t] = "sleep"
            /\ (loopPc[t] = "sleep" /\ loopPc'[t] # "sleep")
                  => (loopPc'[t] = "check" /\ futures'[t] = <<>>)
            /\ (loopPc[t] # "submit" /\ loopPc'[t] = "submit")
                  => (loopPc[t] = "begin" /\ futures[t] = <<>>)]_vars
    /\ \A t \in Threads : (loopPc[t] = "sleep") ~> (loopPc[t] = "submit")

\* a round that took longer than the interval is followed by a zero wait
C15_Witness ==
    \E t \in Threads :
        /\ loopPc[t] = "sleep"
        /\ elapsed_time[t] > MonitoringInterval
        /\ sleep_time[t] = 0

\* C19: the mode of the HybridDataSource is one-directional: once
\* use_alternative is true it stays true, and every get_klines or
\* get_ticker_price call made afterwards is served by the fallback without
\* invoking the primary; an exception of the primary in either operation
\* sets the flag both operations test.
C19_DegradedIsPermanent ==
    /\ [][use_alternative => use_alternative']_vars
    /\ [][\A c \in Clients :
            (use_alternative /\ calls'[c] # calls[c]) =>
               /\ ~calls'[c].invoked
               /\ calls'[c].primary = "skipped"
               /\ calls'[c].served = "fallback"]_vars
    /\ []((\E c \in Clients : calls[c].primary = "raise") => use_alternative)

\* the primary raised in get_ticker_price and a get_klines call was then
\* served by the fallback without trying the primary
C19_Witness ==
    \E c \in Clients, d \in Clients :
        /\ calls[c].op = "get_ticker_price"
        /\ calls[c].primary = "raise"
        /\ calls[d].op = "get_klines"
        /\ ~calls[d].invoked
        /\ calls[d].served = "fallback"

\* C20: a call that was served by the fallback has left the HybridDataSource
\* in Degraded mode.
C20_FallbackImpliesDegraded ==
    \A c \in Clients : calls[c].served = "fallback" => use_alternative

\* C21: analyze_trend on a series shorter than the longest of bb_period,
\* rsi_period and ma_long returns Unknown with a snapshot that holds the
\* reason field only, and evaluates no trend rule; a series of at least that
\* length is classified by the rules.
C21_ShortSeriesIsUnknown ==
    classified.pc = "done" =>
        LET short == \/ classified.len < classified.bb_period
                     \/ classified.len < classified.rsi_period
                     \/ classified.len < classified.ma_long
        IN /\ short => /\ classified.trend = UNKNOWN
                       /\ classified.analysis = {"reason"}
                       /\ ~classified.evaluated
           /\ ~short => classified.evaluated

\* the series is long enough for the two other periods but not for ma_long
C21_Witness ==
    /\ classified.pc = "done"
    /\ classified.len >= classified.bb_period
    /\ classified.len >= classified.rsi_period
    /\ classified.len < classified.ma_long
    /\ classified.trend = UNKNOWN

HoldCount(conditions) == Cardinality({n \in DOMAIN conditions : conditions[n]})

\* C22: on a series that is long enough the result is Sideways if at least
\* 3 of the 4 sideways conditions hold, otherwise Uptrend if at least 2 of
\* the 3 uptrend conditions hold, otherwise Downtrend if at least 2 of the 3
\* downtrend conditions hold, otherwise Sideways; it is never Unknown.
C22_ClassifierPrecedence ==
    (classified.pc = "done" /\ classified.evaluated) =>
        /\ classified.trend \in {SIDEWAYS, UPTREND, DOWNTREND}
        /\ HoldCount(classified.sideways) >= 3 => classified.trend = SIDEWAYS
        /\ (HoldCount(classified.sideways) < 3
              /\ HoldCount(classified.uptrend) >= 2)
                => classified.trend = UPTREND
        /\ (HoldCount(classified.sideways) < 3
              /\ HoldCount(classified.uptrend) < 2
              /\ HoldCount(classified.downtrend) >= 2)
                => classified.trend = DOWNTREND
        /\ (HoldCount(classified.sideways) < 3
              /\ HoldCount(classified.uptrend) < 2
              /\ HoldCount(classified.downtrend) < 2)
                => classified.trend = SIDEWAYS

\* the sideways and the uptrend rule both hold and the sideways rule wins
C22_Witness ==
    /\ classified.pc = "done"
    /\ classified.evaluated
    /\ HoldCount(classified.sideways) >= 3
    /\ HoldCount(classified.uptrend) >= 2
    /\ classified.trend = SIDEWAYS

\* C23: within a round at most min(10, pair_count) tasks execute at the
\* same time, pair_count being the number of symbols times the number of
\* timeframes when the round's pool is created.
C23_PoolBound ==
    /\ [](\A t \in Threads :
            /\ Cardinality(Running(t)) <= max_workers[t]
            /\ max_workers[t] <= 10)
    /\ [][\A t \in Threads :
            (loopPc[t] = "begin" /\ loopPc'[t] = "submit") =>
               /\ max_workers'[t] =
                     IF Len(symbols) * Len(timeframes) < 10
                     THEN Len(symbols) * Len(timeframes) ELSE 10
               /\ max_workers'[t] >= 1]_vars
    /\ [][\A t \in Threads :
            (loopPc[t] \in {"submit", "collect"}
               /\ loopPc'[t] \in {"submit", "collect"})
                 => max_workers'[t] = max_workers[t]]_vars
    /\ [](\A n \in {9, 10, 11} :
            PoolSize([k \in 1..n |-> BTC]) = IF n * Len(timeframes) < 10
                                             THEN n * Len(timeframes) ELSE 10)

\* a pool of one worker with two tasks: one executes, the other waits
C23_Witness ==
    \E t \in Threads :
        /\ max_workers[t] = 1
        /\ Len(futures[t]) = 2
        /\ Cardinality(Running(t)) = 1
        /\ \E i \in 1..Len(futures[t]) : futures[t][i].pc = "queued"

\* C24: within one loop thread the wait and the next round begin only after
\* every task of the current round has completed, with success or not: a
\* loop thread outside its round has no unfinished task, and a round begins
\* with no task of an earlier round.
C24_RoundWaitsForTasks ==
    /\ [](\A t \in Threads :
            loopPc[t] \in {"sleep", "backoff", "check", "begin", "none"} =>
               \A i \in 1..Len(futures[t]) :
                  /\ futures[t][i].pc = "collected"
                  /\ futures[t][i].result \in BOOLEAN)
    /\ [][\A t \in Threads :
            (loopPc[t] # "submit" /\ loopPc'[t] = "submit") =>
               (futures[t] = <<>> /\ futures'[t] = <<>>)]_vars

\* the loop waits after a round with a failed and a successful task
C24_Witness ==
    \E t \in Threads :
        /\ loopPc[t] = "sleep"
        /\ Len(futures[t]) = 2
        /\ futures[t][1].result = FALSE
        /\ futures[t][2].result = TRUE

C26_RequestsSpaced ==
    \A r \in Requesters, q \in Requesters :
        (r # q /\ reqs[r].pc \in {"request", "done"}
               /\ reqs[q].pc \in {"request", "done"}) =>
            \/ reqs[r].start - reqs[q].start >= RateLimitInterval
            \/ reqs[q].start - reqs[r].start >= RateLimitInterval

\* C27: an Unknown classification is stored like any other value and
\* overwrites the entry of its key, and the task that stores it sends no
\* alert; the next task of the key reads Unknown as its previous trend and
\* sends no alert either, whatever it classifies.
C27_UnknownOverwrites ==
    [][\A t \in Threads : \A i \in 1..Len(futures[t]) :
         /\ (Moves(t, i, "locked", "written") /\ futures[t][i].cur = UNKNOWN)
               => /\ trend_history'[KeyOf(t, i)] = UNKNOWN
                  /\ ~futures'[t][i].changed
         /\ (Moves(t, i, "fetched", "locked")
               /\ trend_history[KeyOf(t, i)] = UNKNOWN)
               => futures'[t][i].prev = UNKNOWN
         /\ (Moves(t, i, "locked", "written") /\ futures[t][i].prev = UNKNOWN)
               => ~futures'[t][i].changed
         /\ (Moves(t, i, "written", "done") /\ ~futures[t][i].changed)
               => ~futures'[t][i].alerted]_vars

\* a task has read a stored Unknown as its previous trend and has classified
\* an uptrend
C27_Witness ==
    \E t \in Threads : \E i \in 1..Len(futures[t]) :
        /\ futures[t][i].pc = "locked"
        /\ trend_history[KeyOf(t, i)] = UNKNOWN
        /\ futures[t][i].prev = UNKNOWN
        /\ futures[t][i].cur = UPTREND

\* C28: with an empty pair set a round does not complete as an empty
\* round: the creation of the pool raises, and the loop iteration takes the
\* error path, which sends the ERROR system alert and enters the backoff.
C28_EmptySetTakesErrorPath ==
    [][\A t \in Threads :
         (loopPc[t] = "begin" /\ PoolSize(symbols) <= 0 /\ loopPc'[t] # "begin")
            => loopPc'[t] = "backoff"]_vars

\* C29: a pair whose symbol stays in the symbol list during the whole
\* submission phase gets exactly one task in the round, also when another
\* symbol is added or removed meanwhile: PERP is never removed, so every
\* round whose submission is over holds exactly one task for PERP.
C29_OneTaskPerStayingPair ==
    \A t \in Threads :
        loopPc[t] = "collect" =>
            Cardinality({i \in 1..Len(futures[t]) : futures[t][i].sym = PERP}) = 1

\* no task is inside its "with self.lock" block
NoTaskLocked ==
    \A t \in Threads : \A i \in 1..Len(futures[t]) : futures[t][i].pc # "locked"

\* C30: the trend-map lock is held only around the read and write of the
\* map (and, in one step each, the status snapshot and the purge): a task
\* that fetches, computes or dispatches does not hold it, so while no task
\* is between its read and its write the lock is free and the update of
\* another key, get_current_status and the purge of remove_symbol can go
\* on; every acquisition of the lock is followed by its release.
C30_LockOnlyAroundMap ==
    /\ [](\A t \in Threads : \A i \in 1..Len(futures[t]) :
            futures[t][i].pc # "locked" => lock # <<t, i>>)
    /\ [](lock # FreeLock =>
            \E t \in Threads : \E i \in 1..Len(futures[t]) :
                lock = <<t, i>> /\ futures[t][i].pc = "locked")
    /\ [](NoTaskLocked =>
            /\ callerPc = "purging" => ENABLED remove_symbol_purge
            /\ callerPc = "idle" => ENABLED get_current_status
            /\ \A t \in Threads : \A i \in 1..Len(futures[t]) :
                  futures[t][i].pc = "fetched" => ENABLED AnalyzeLockRead(t, i))
    /\ [][(lastOp' # lastOp \/ callerPc' # callerPc) => lock' = lock]_vars
    /\ (lock # FreeLock ~> lock = FreeLock)

\* one task is inside its "with" block while another task of the round,
\* for another key, is still in its alert dispatch
C30_Witness ==
    \E t \in Threads : \E i \in 1..Len(futures[t]) : \E j \in 1..Len(futures[t]) :
        /\ KeyOf(t, i) # KeyOf(t, j)
        /\ futures[t][i].pc = "written"
        /\ futures[t][i].changed
        /\ futures[t][j].pc = "locked"
        /\ lock = <<t, j>>

====
